---------------------------- MODULE Spec2Model ----------------------------
(***************************************************************************)
(* Glass-Box: the lexer (src/lexer_engine.py), the recursive-descent      *)
(* parser (src/parser_engine.py) and the pipeline that runs one after the *)
(* other (analyze in src/app.py).                                          *)
(*                                                                         *)
(* A character is a string of length one, the source text a sequence of   *)
(* characters, and a lexeme a string built with \o as the code builds it  *)
(* with +=.  Python's None is None (the empty string) where a character   *)
(* or a text is expected and NoLine where a line is.                      *)
(***************************************************************************)
EXTENDS Integers, Sequences, FiniteSets, TLC

VARIABLES
    lexer,      \* the Lexer object of analyze: stream, steps, symbol_table, ...
    tokens,     \* analyze's list `tokens`
    token,      \* analyze's local `token`: what get_next_token returned last
    parser,     \* the Parser object: tokens, position, parse_steps, routine_stack
    program,    \* parse's local `program`, the ProgramNode under construction
    error,      \* the exception that ended the request, NoError while none
    pc          \* where analyze stands

vars == <<lexer, tokens, token, parser, program, error, pc>>

---------------------------------------------------------------------------
(* Bounds of the checked inputs *)

MaxWords == 4
MaxOpRun == 2
MaxOps == 2
MaxArgs == 3
MaxStmts == 2
MaxIdentWords == 3
MaxTokens == 2
MaxChars == 4
MaxParseWords == 4

---------------------------------------------------------------------------
(* Python values *)

None == ""

NoLine == -1

NoError == [class |-> "None"]

LexicalError(message, line, column) ==
    [class |-> "LexicalError", message |-> message, line |-> line, column |-> column]

Token(token_type, value, line, column) ==
    [type |-> token_type, value |-> value, line |-> line, column |-> column]

NoToken == Token("None", "", 0, 0)

TokenStr(t) ==
    "<" \o t.type \o ", '" \o t.value \o "', line " \o ToString(t.line) \o ">"

(* str.isalpha, str.isdigit, str.isspace, str.isalnum on one character *)
isalpha(c) ==
    c \in {"a","b","c","d","e","f","g","h","i","j","k","l","m","n","o","p","q",
           "r","s","t","u","v","w","x","y","z","A","B","C","X","Y","Z"}

isdigit(c) == c \in {"0","1","2","3","4","5","6","7","8","9"}

(* isspace that knows the blank and the newline alone *)
isspace_blank(c) == c \in {" ", "\n"}

(* isspace that knows the newline alone *)
isspace_newline(c) == c = "\n"

isspace(c) == c \in {" ", "\t", "\n", "\r"}

isalnum(c) == isalpha(c) \/ isdigit(c)

---------------------------------------------------------------------------
(* CharStream *)

CharStream(text) == [text |-> text, position |-> 0, line |-> 1, column |-> 1]

(* get_char moving one column on after a newline as after any character *)
get_char_no_reset(s) ==
    IF s.position >= Len(s.text)
    THEN [stream |-> s, char |-> None]
    ELSE LET char == s.text[s.position + 1]
             moved == [s EXCEPT !.position = @ + 1]
         IN  [stream |-> IF char = "\n"
                         THEN [moved EXCEPT !.line = @ + 1, !.column = @ + 1]
                         ELSE [moved EXCEPT !.column = @ + 1],
              char |-> char]

get_char(s) ==
    IF s.position >= Len(s.text)
    THEN [stream |-> s, char |-> None]
    ELSE LET char == s.text[s.position + 1]
             moved == [s EXCEPT !.position = @ + 1]
         IN  [stream |-> IF char = "\n"
                         THEN [moved EXCEPT !.line = @ + 1, !.column = 1]
                         ELSE [moved EXCEPT !.column = @ + 1],
              char |-> char]

peek_char(s) ==
    IF s.position >= Len(s.text) THEN None ELSE s.text[s.position + 1]

---------------------------------------------------------------------------
(* Lexer *)

keywords == {"int", "float", "char", "double", "if", "else", "while", "for", "return"}

operators == {"+", "-", "*", "/", "=", "==", "!=", "<", ">", "<=", ">="}

delimiters == {";", ",", "(", ")", "{", "}"}

multi_char_operators == {"==", "!=", "<=", ">="}

(* _last_token is an attribute that tokenize alone sets: NoToken stands    *)
(* for a Lexer that has none.                                               *)
Lexer(text) ==
    [stream |-> CharStream(text), tokens |-> <<>>, steps |-> <<>>, symbol_table |-> <<>>,
     current_lexeme |-> "", current_state |-> "START", last_token |-> NoToken]

(* log_step storing the table itself, not a copy of it: every step of the   *)
(* trace shows the table as it is now                                       *)
log_step_shared(lx, message, char) ==
    [lx EXCEPT !.steps =
        [k \in 1..(Len(@) + 1) |->
            IF k <= Len(@)
            THEN [@[k] EXCEPT !.symbol_table_snapshot = lx.symbol_table]
            ELSE [action |-> "TOKEN_GENERATED",
                  message |-> message,
                  line |-> lx.stream.line,
                  column |-> lx.stream.column,
                  current_state |-> lx.current_state,
                  current_lexeme |-> lx.current_lexeme,
                  symbol_table_snapshot |-> lx.symbol_table,
                  char |-> char,
                  token_generated |-> IF lx.last_token = NoToken THEN None
                                      ELSE TokenStr(lx.last_token)]]]

(* log_step: every call of the lexer leaves action at its default, so a     *)
(* step has token_generated once _last_token is set.  char and              *)
(* token_generated are None where the code adds none.                       *)
log_step(lx, message, char) ==
    [lx EXCEPT !.steps = Append(@,
        [action |-> "TOKEN_GENERATED",
         message |-> message,
         line |-> lx.stream.line,
         column |-> lx.stream.column,
         current_state |-> lx.current_state,
         current_lexeme |-> lx.current_lexeme,
         symbol_table_snapshot |-> lx.symbol_table,
         char |-> char,
         token_generated |-> IF lx.last_token = NoToken THEN None
                             ELSE TokenStr(lx.last_token)])]

(* What a call returns: the lexer after it, the token returned (NoToken     *)
(* when it raised) and the exception raised (NoError when it returned).     *)
Returned(lx, tok) == [lexer |-> lx, token |-> tok, raised |-> NoError]

Raised(lx, err) == [lexer |-> lx, token |-> NoToken, raised |-> err]

(* symbol_table[name] = entry *)
SetItem(table, name, entry) ==
    [n \in (DOMAIN table) \cup {name} |-> IF n = name THEN entry ELSE table[n]]

SymbolEntry(line) == [type |-> "variable", line |-> line]

RECURSIVE identifier_loop(_)
identifier_loop(lx) ==
    LET char == peek_char(lx.stream) IN
    IF char # None /\ (isalnum(char) \/ char = "_")
    THEN LET g == get_char(lx.stream)
             l1 == [lx EXCEPT !.stream = g.stream, !.current_lexeme = @ \o g.char]
         IN  identifier_loop(
                 log_step(l1, "Building identifier: '" \o l1.current_lexeme \o "'", None))
    ELSE lx

(* _read_identifier entering every word, keywords too, in the symbol table *)
read_identifier_all(lx0, first_char) ==
    LET l1 == identifier_loop(
                  [lx0 EXCEPT !.current_lexeme = first_char, !.current_state = "IDENTIFIER"])
        line == l1.stream.line
        column == l1.stream.column
        isKeyword == l1.current_lexeme \in keywords
        l2 == IF isKeyword
              THEN log_step([l1 EXCEPT !.current_state = "KEYWORD",
                                       !.symbol_table =
                                           SetItem(@, l1.current_lexeme, SymbolEntry(line))],
                            "Found keyword: " \o l1.current_lexeme, None)
              ELSE log_step([l1 EXCEPT !.symbol_table =
                                 SetItem(@, l1.current_lexeme, SymbolEntry(line))],
                            "Found identifier: " \o l1.current_lexeme, None)
        tok == Token(IF isKeyword THEN "KEYWORD" ELSE "IDENTIFIER",
                     l1.current_lexeme, line, column)
    IN  Returned(log_step(l2, "Token generated: " \o TokenStr(tok), None), tok)

read_identifier(lx0, first_char) ==
    LET l1 == identifier_loop(
                  [lx0 EXCEPT !.current_lexeme = first_char, !.current_state = "IDENTIFIER"])
        line == l1.stream.line
        column == l1.stream.column
        isKeyword == l1.current_lexeme \in keywords
        l2 == IF isKeyword
              THEN log_step([l1 EXCEPT !.current_state = "KEYWORD"],
                            "Found keyword: " \o l1.current_lexeme, None)
              ELSE log_step([l1 EXCEPT !.symbol_table =
                                 SetItem(@, l1.current_lexeme, SymbolEntry(line))],
                            "Found identifier: " \o l1.current_lexeme, None)
        tok == Token(IF isKeyword THEN "KEYWORD" ELSE "IDENTIFIER",
                     l1.current_lexeme, line, column)
    IN  Returned(log_step(l2, "Token generated: " \o TokenStr(tok), None), tok)

RECURSIVE number_loop(_, _)
number_loop(lx, has_decimal) ==
    LET char == peek_char(lx.stream) IN
    IF char # None /\ (isdigit(char) \/ (char = "." /\ ~has_decimal))
    THEN LET l0 == IF char = "." THEN [lx EXCEPT !.current_state = "FLOAT"] ELSE lx
             g == get_char(l0.stream)
             l1 == [l0 EXCEPT !.stream = g.stream, !.current_lexeme = @ \o g.char]
         IN  number_loop(
                 log_step(l1, "Building number: '" \o l1.current_lexeme \o "'", None),
                 has_decimal \/ char = ".")
    ELSE [lexer |-> lx, has_decimal |-> has_decimal]

(* _read_number refusing a number that a letter follows *)
read_number_strict(lx0, first_char) ==
    LET r == number_loop(
                 [lx0 EXCEPT !.current_lexeme = first_char, !.current_state = "NUMBER"],
                 FALSE)
        l1 == r.lexer
        l2 == log_step(l1, "Found number: " \o l1.current_lexeme, None)
        tok == Token(IF r.has_decimal THEN "FLOAT" ELSE "INTEGER",
                     l1.current_lexeme, l1.stream.line, l1.stream.column)
    IN  IF isalpha(peek_char(l1.stream))
        THEN Raised(l1, LexicalError("Invalid number: " \o l1.current_lexeme,
                                     l1.stream.line, l1.stream.column))
        ELSE Returned(log_step(l2, "Token generated: " \o TokenStr(tok), None), tok)

read_number(lx0, first_char) ==
    LET r == number_loop(
                 [lx0 EXCEPT !.current_lexeme = first_char, !.current_state = "NUMBER"],
                 FALSE)
        l1 == r.lexer
        l2 == log_step(l1, "Found number: " \o l1.current_lexeme, None)
        tok == Token(IF r.has_decimal THEN "FLOAT" ELSE "INTEGER",
                     l1.current_lexeme, l1.stream.line, l1.stream.column)
    IN  Returned(log_step(l2, "Token generated: " \o TokenStr(tok), None), tok)

(* The while loop of _read_string, char being the character just consumed   *)
RECURSIVE string_loop(_, _)
(* the loop of _read_string taking the end of input for the closing quote *)
string_loop_lenient(lx, char) ==
    IF char # None /\ char # "\""
    THEN LET l1 == [lx EXCEPT !.current_lexeme = @ \o char]
             l2 == log_step(l1, "Building string: '" \o l1.current_lexeme \o "'", None)
         IN  IF char = "\n"
             THEN Raised(l2, LexicalError("Unterminated string",
                                          l2.stream.line, l2.stream.column))
             ELSE LET g == get_char(l2.stream)
                  IN  string_loop([l2 EXCEPT !.stream = g.stream], g.char)
    ELSE LET l1 == log_step(lx, "Found string: " \o lx.current_lexeme, None)
             tok == Token("STRING", lx.current_lexeme, lx.stream.line, lx.stream.column)
         IN  Returned(log_step(l1, "Token generated: " \o TokenStr(tok), None), tok)

string_loop(lx, char) ==
    IF char # None /\ char # "\""
    THEN LET l1 == [lx EXCEPT !.current_lexeme = @ \o char]
             l2 == log_step(l1, "Building string: '" \o l1.current_lexeme \o "'", None)
         IN  IF char = "\n"
             THEN Raised(l2, LexicalError("Unterminated string",
                                          l2.stream.line, l2.stream.column))
             ELSE LET g == get_char(l2.stream)
                  IN  string_loop([l2 EXCEPT !.stream = g.stream], g.char)
    ELSE IF char = None
    THEN Raised(lx, LexicalError("Unterminated string", lx.stream.line, lx.stream.column))
    ELSE LET l1 == log_step(lx, "Found string: " \o lx.current_lexeme, None)
             tok == Token("STRING", lx.current_lexeme, lx.stream.line, lx.stream.column)
         IN  Returned(log_step(l1, "Token generated: " \o TokenStr(tok), None), tok)

read_string(lx0, first_char) ==
    LET g == get_char(lx0.stream)
    IN  string_loop([lx0 EXCEPT !.current_lexeme = "", !.current_state = "STRING",
                                !.stream = g.stream],
                    g.char)

read_operator(lx0, first_char) ==
    LET line == lx0.stream.line
        column == lx0.stream.column
        l0 == [lx0 EXCEPT !.current_state = "OPERATOR"]
        two_char_op == first_char \o peek_char(l0.stream)
    IN  IF two_char_op \in multi_char_operators
        THEN LET g == get_char(l0.stream)
                 l1 == log_step([l0 EXCEPT !.stream = g.stream,
                                           !.current_lexeme = two_char_op],
                                "Found operator: " \o two_char_op, None)
                 tok == Token("OPERATOR", two_char_op, line, column)
             IN  Returned(log_step(l1, "Token generated: " \o TokenStr(tok), None), tok)
        ELSE LET l1 == log_step([l0 EXCEPT !.current_lexeme = first_char],
                                "Found operator: " \o first_char, None)
                 tok == Token("OPERATOR", first_char, line, column)
             IN  Returned(log_step(l1, "Token generated: " \o TokenStr(tok), None), tok)

read_delimiter(lx0, first_char) ==
    LET l1 == log_step([lx0 EXCEPT !.current_state = "DELIMITER",
                                   !.current_lexeme = first_char],
                       "Found delimiter: " \o first_char, None)
        tok == Token("DELIMITER", first_char, lx0.stream.line, lx0.stream.column)
    IN  Returned(log_step(l1, "Token generated: " \o TokenStr(tok), None), tok)

(* The while loop of get_next_token, char being the character just consumed *)
RECURSIVE token_loop(_, _)
token_loop(lx, char) ==
    IF char = None
    THEN Returned(lx, Token("EOF", "", lx.stream.line, lx.stream.column))
    ELSE LET l1 == log_step(lx, "Processing character: '" \o char \o "'", char) IN
         IF isspace(char)
         THEN LET l2 == log_step([l1 EXCEPT !.current_state = "WHITESPACE"],
                                 "Skipping whitespace", char)
                  g == get_char(l2.stream)
              IN  token_loop([l2 EXCEPT !.stream = g.stream], g.char)
         ELSE IF isalpha(char)
         THEN read_identifier([l1 EXCEPT !.current_state = "BUILDING_IDENTIFIER"], char)
         ELSE IF isdigit(char)
         THEN read_number([l1 EXCEPT !.current_state = "BUILDING_NUMBER"], char)
         ELSE IF char = "\""
         THEN read_string([l1 EXCEPT !.current_state = "BUILDING_STRING"], char)
         ELSE IF char \in operators
         THEN read_operator([l1 EXCEPT !.current_state = "OPERATOR"], char)
         ELSE IF char \in delimiters
         THEN read_delimiter([l1 EXCEPT !.current_state = "DELIMITER"], char)
         ELSE Raised(l1, LexicalError("Unexpected character: '" \o char \o "'",
                                      l1.stream.line, l1.stream.column))

get_next_token(lx0) ==
    LET g == get_char(lx0.stream)
    IN  token_loop([lx0 EXCEPT !.current_lexeme = "", !.current_state = "START",
                               !.stream = g.stream],
                   g.char)

(* tokenize, from its first call of get_next_token on: token is what the   *)
(* last call returned                                                       *)
RECURSIVE tokenize_loop(_)
(* the loop of tokenize appending the EOF token as well *)
tokenize_loop_eof(r) ==
    IF r.raised # NoError THEN r
    ELSE IF r.token.type # "EOF"
    THEN tokenize_loop(get_next_token([r.lexer EXCEPT !.tokens = Append(@, r.token),
                                                      !.last_token = r.token]))
    ELSE [r EXCEPT !.lexer.tokens = Append(@, r.token)]

tokenize_loop(r) ==
    IF r.raised # NoError THEN r
    ELSE IF r.token.type # "EOF"
    THEN tokenize_loop(get_next_token([r.lexer EXCEPT !.tokens = Append(@, r.token),
                                                      !.last_token = r.token]))
    ELSE r

(* What tokenize returns is self.tokens, the tokens of the lexer after it *)
tokenize(lx0) == tokenize_loop(get_next_token([lx0 EXCEPT !.tokens = <<>>]))

---------------------------------------------------------------------------
(* AST nodes.  BinaryOpNode.left and .right are the two objects that are    *)
(* also its children, and FunctionCallNode.arguments holds the objects that *)
(* are also its children.                                                   *)

NoNode == [type |-> "None"]

ProgramNode == [type |-> "Program", line |-> NoLine, children |-> <<>>]

DeclarationNode(var_type, var_name, line) ==
    [type |-> "Declaration", line |-> line, children |-> <<>>,
     var_type |-> var_type, var_name |-> var_name]

IdentifierNode(name, line) ==
    [type |-> "Identifier", line |-> line, children |-> <<>>, name |-> name]

AssignmentNode(var_name, line) ==
    [type |-> "Assignment", line |-> line,
     children |-> <<IdentifierNode(var_name, line)>>, var_name |-> var_name]

BinaryOpNode(operator, left, right, line) ==
    [type |-> "BinaryOp", line |-> line, children |-> <<left, right>>,
     operator |-> operator]

NumberNode(value, line) ==
    [type |-> "Number", line |-> line, children |-> <<>>, value |-> value]

StringNode(value, line) ==
    [type |-> "String", line |-> line, children |-> <<>>, value |-> value]

FunctionCallNode(function_name, line) ==
    [type |-> "FunctionCall", line |-> line, children |-> <<>>,
     function_name |-> function_name, arguments |-> <<>>]

add_child(node, child) == [node EXCEPT !.children = Append(@, child)]

add_argument(node, arg) ==
    [node EXCEPT !.arguments = Append(@, arg), !.children = Append(@, arg)]

(* __repr__ of a node *)
NodeRepr(n) ==
    CASE n.type = "Program" ->
             "Program(" \o ToString(Len(n.children)) \o " statements)"
      [] n.type = "Declaration" ->
             "Declaration(" \o n.var_type \o " " \o n.var_name \o ")"
      [] n.type = "Assignment" -> "Assignment(" \o n.var_name \o ")"
      [] n.type = "BinaryOp" -> "BinaryOp(" \o n.operator \o ")"
      [] n.type = "Number" -> "Number(" \o n.value \o ")"
      [] n.type = "String" -> "String(" \o n.value \o ")"
      [] n.type = "Identifier" -> "Identifier(" \o n.name \o ")"
      [] n.type = "FunctionCall" ->
             "FunctionCall(" \o n.function_name \o ", "
                 \o ToString(Len(n.arguments)) \o " args)"
      [] OTHER -> None

---------------------------------------------------------------------------
(* Parser *)

SyntaxError(message, line, expected, found) ==
    [class |-> "SyntaxError", message |-> message, line |-> line,
     expected |-> expected, found |-> found]

type_keywords == {"int", "float", "char", "double"}

(* current_token is tokens[position], None past the end *)
has_token(p) == p.position < Len(p.tokens)

current_token(p) == IF has_token(p) THEN p.tokens[p.position + 1] ELSE NoToken

advance(p) == [p EXCEPT !.position = @ + 1]

Parser(toks) ==
    advance([tokens |-> toks, position |-> -1, parse_steps |-> <<>>,
             routine_stack |-> <<>>])

get_current_line(p) == IF has_token(p) THEN current_token(p).line ELSE 0

(* Parser.log_step; node_created is NoNode and routine None where the call  *)
(* passes none                                                              *)
parser_log_step(p, action, message, node_created, routine) ==
    LET stack ==
            IF routine = None THEN p.routine_stack
            ELSE IF action = "ROUTINE" THEN Append(p.routine_stack, routine)
            ELSE IF action \in {"COMPLETE", "CREATE_NODE"}
                    /\ p.routine_stack # <<>>
                    /\ p.routine_stack[Len(p.routine_stack)] = routine
            THEN SubSeq(p.routine_stack, 1, Len(p.routine_stack) - 1)
            ELSE p.routine_stack
    IN  [p EXCEPT !.routine_stack = stack,
                  !.parse_steps = Append(@,
                      [action |-> action,
                       message |-> message,
                       current_token |-> IF has_token(p) THEN TokenStr(current_token(p))
                                         ELSE None,
                       line |-> get_current_line(p),
                       token_generated |-> IF node_created = NoNode THEN None
                                           ELSE NodeRepr(node_created),
                       routine |-> routine,
                       stack |-> stack])]

(* What a grammar routine returns: the parser after it, the node returned   *)
(* (NoNode when it raised) and the exception raised (NoError otherwise).    *)
Parsed(p, node) == [parser |-> p, node |-> node, raised |-> NoError]

Failed(p, err) == [parser |-> p, node |-> NoNode, raised |-> err]

(* expect moving past the token it refuses *)
expect_skip(p, token_type, token_value) ==
    LET cur == current_token(p) IN
    IF ~has_token(p)
    THEN Failed(p, SyntaxError("Unexpected end of input", get_current_line(p), None, None))
    ELSE IF cur.type # token_type
    THEN Failed(advance(p), SyntaxError("Expected " \o token_type \o ", got " \o cur.type,
                                        get_current_line(p), token_type, cur.type))
    ELSE IF token_value # None /\ cur.value # token_value
    THEN Failed(advance(p),
                SyntaxError("Expected '" \o token_value \o "', got '" \o cur.value \o "'",
                            get_current_line(p), token_value, cur.value))
    ELSE Parsed(advance(parser_log_step(p, "CONSUME", "Consumed: " \o TokenStr(cur),
                                        NoNode, None)),
                cur)

(* expect returns the consumed token in the place of the node *)
expect(p, token_type, token_value) ==
    LET cur == current_token(p) IN
    IF ~has_token(p)
    THEN Failed(p, SyntaxError("Unexpected end of input", get_current_line(p), None, None))
    ELSE IF cur.type # token_type
    THEN Failed(p, SyntaxError("Expected " \o token_type \o ", got " \o cur.type,
                               get_current_line(p), token_type, cur.type))
    ELSE IF token_value # None /\ cur.value # token_value
    THEN Failed(p, SyntaxError("Expected '" \o token_value \o "', got '" \o cur.value \o "'",
                               get_current_line(p), token_value, cur.value))
    ELSE Parsed(advance(parser_log_step(p, "CONSUME", "Consumed: " \o TokenStr(cur),
                                        NoNode, None)),
                cur)

(* Sequencing.  Bind(v, F) is F applied to the value of v, the statement   *)
(* after an assignment x = v.  Then(r, F) is the statement after a call     *)
(* that may raise: the exception of r propagates, and F goes on from what r *)
(* returned otherwise.                                                      *)
Bind(v, F(_)) == CHOOSE out \in {F(x) : x \in {v}} : TRUE

Then(r, F(_)) ==
    CHOOSE out \in {IF x.raised # NoError THEN Failed(x.parser, x.raised) ELSE F(x) :
                       x \in {r}} : TRUE

RECURSIVE parse_expression(_)
RECURSIVE parse_additive_expression(_)
RECURSIVE additive_loop(_, _)
RECURSIVE parse_multiplicative_expression(_)
RECURSIVE multiplicative_loop(_, _)
RECURSIVE parse_primary_expression(_)

(* A literal or an identifier as a primary: CONSUME, the node, CREATE_NODE, *)
(* advance                                                                  *)
primary_leaf(p, what, node) ==
    Bind(parser_log_step(p, "CONSUME",
                         "Consumed " \o what \o ": " \o current_token(p).value,
                         NoNode, None), LAMBDA p1 :
    Bind(parser_log_step(p1, "CREATE_NODE",
                         "Created " \o what \o ": " \o current_token(p).value,
                         node, None), LAMBDA p2 :
    Parsed(advance(p2), node)))

parse_primary_expression(p0) ==
    Bind(parser_log_step(p0, "ROUTINE", "Starting primary expression", NoNode,
                         "parse_primary_expression"), LAMBDA p :
    Bind(current_token(p), LAMBDA cur :
    IF has_token(p) /\ cur.type \in {"NUMBER", "INTEGER", "FLOAT"}
    THEN primary_leaf(p, "number", NumberNode(cur.value, get_current_line(p)))
    ELSE IF has_token(p) /\ cur.type = "STRING"
    THEN primary_leaf(p, "string", StringNode(cur.value, get_current_line(p)))
    ELSE IF has_token(p) /\ cur.type = "IDENTIFIER"
    THEN primary_leaf(p, "identifier", IdentifierNode(cur.value, get_current_line(p)))
    ELSE IF has_token(p) /\ cur.value = "("
    THEN Then(expect(p, "DELIMITER", "("), LAMBDA open :
         Then(parse_expression(open.parser), LAMBDA expr :
         Then(expect(expr.parser, "DELIMITER", ")"), LAMBDA close :
         Parsed(close.parser, expr.node))))
    ELSE Failed(p, SyntaxError("Expected number, string, identifier, or '('",
                               get_current_line(p), None, None))))

(* multiplicative_loop taking the operators of both levels *)
multiplicative_loop_both(p, result) ==
    IF has_token(p) /\ current_token(p).value \in {"*", "/", "+", "-"}
    THEN Bind(current_token(p).value, LAMBDA operator :
         Bind(parser_log_step(p, "OPERATOR", "Found operator: " \o operator,
                              NoNode, None), LAMBDA p1 :
         Then(expect(p1, "OPERATOR", None), LAMBDA op :
         Then(parse_primary_expression(op.parser), LAMBDA right :
         Bind(BinaryOpNode(operator, result, right.node,
                           get_current_line(right.parser)), LAMBDA node :
         Bind(parser_log_step(right.parser, "CREATE_NODE",
                              "Created binary op: " \o operator, node, None), LAMBDA p2 :
         multiplicative_loop(p2, node)))))))
    ELSE Parsed(parser_log_step(p, "COMPLETE", "Multiplicative expression complete",
                                NoNode, "parse_multiplicative_expression"),
                result)

(* The while loop of parse_multiplicative_expression *)
multiplicative_loop(p, result) ==
    IF has_token(p) /\ current_token(p).value \in {"*", "/"}
    THEN Bind(current_token(p).value, LAMBDA operator :
         Bind(parser_log_step(p, "OPERATOR", "Found operator: " \o operator,
                              NoNode, None), LAMBDA p1 :
         Then(expect(p1, "OPERATOR", None), LAMBDA op :
         Then(parse_primary_expression(op.parser), LAMBDA right :
         Bind(BinaryOpNode(operator, result, right.node,
                           get_current_line(right.parser)), LAMBDA node :
         Bind(parser_log_step(right.parser, "CREATE_NODE",
                              "Created binary op: " \o operator, node, None), LAMBDA p2 :
         multiplicative_loop(p2, node)))))))
    ELSE Parsed(parser_log_step(p, "COMPLETE", "Multiplicative expression complete",
                                NoNode, "parse_multiplicative_expression"),
                result)

parse_multiplicative_expression(p0) ==
    Bind(parser_log_step(p0, "ROUTINE", "Starting multiplicative expression",
                         NoNode, "parse_multiplicative_expression"), LAMBDA p :
    Then(parse_primary_expression(p), LAMBDA first :
    multiplicative_loop(first.parser, first.node)))

(* additive_loop folding to the right: the operand after the operator is    *)
(* the whole rest of the chain.                                             *)
additive_loop_right(p, result) ==
    IF has_token(p) /\ current_token(p).value \in {"+", "-"}
    THEN Bind(current_token(p).value, LAMBDA operator :
         Bind(parser_log_step(p, "OPERATOR", "Found operator: " \o operator,
                              NoNode, None), LAMBDA p1 :
         Then(expect(p1, "OPERATOR", None), LAMBDA op :
         Then(parse_additive_expression(op.parser), LAMBDA right :
         Bind(BinaryOpNode(operator, result, right.node,
                           get_current_line(right.parser)), LAMBDA node :
         Parsed(parser_log_step(right.parser, "CREATE_NODE",
                                "Created binary op: " \o operator, node, None),
                node))))))
    ELSE Parsed(parser_log_step(p, "COMPLETE", "Additive expression complete",
                                NoNode, "parse_additive_expression"),
                result)

(* The while loop of parse_additive_expression *)
additive_loop(p, result) ==
    IF has_token(p) /\ current_token(p).value \in {"+", "-"}
    THEN Bind(current_token(p).value, LAMBDA operator :
         Bind(parser_log_step(p, "OPERATOR", "Found operator: " \o operator,
                              NoNode, None), LAMBDA p1 :
         Then(expect(p1, "OPERATOR", None), LAMBDA op :
         Then(parse_multiplicative_expression(op.parser), LAMBDA right :
         Bind(BinaryOpNode(operator, result, right.node,
                           get_current_line(right.parser)), LAMBDA node :
         Bind(parser_log_step(right.parser, "CREATE_NODE",
                              "Created binary op: " \o operator, node, None), LAMBDA p2 :
         additive_loop(p2, node)))))))
    ELSE Parsed(parser_log_step(p, "COMPLETE", "Additive expression complete",
                                NoNode, "parse_additive_expression"),
                result)

parse_additive_expression(p0) ==
    Bind(parser_log_step(p0, "ROUTINE", "Starting additive expression",
                         NoNode, "parse_additive_expression"), LAMBDA p :
    Then(parse_multiplicative_expression(p), LAMBDA first :
    additive_loop(first.parser, first.node)))

parse_expression(p0) ==
    Bind(parser_log_step(p0, "ROUTINE", "Starting expression parsing",
                         NoNode, "parse_expression"), LAMBDA p :
    Then(parse_additive_expression(p), LAMBDA result :
    Parsed(parser_log_step(result.parser, "COMPLETE", "Expression parsing complete",
                           NoNode, "parse_expression"),
           result.node)))

parse_declaration(p0) ==
    Bind(parser_log_step(p0, "ROUTINE", "Starting declaration", NoNode,
                         "parse_declaration"), LAMBDA p :
    Then(expect(p, "KEYWORD", None), LAMBDA kw :
    Then(expect(kw.parser, "IDENTIFIER", None), LAMBDA id :
    Bind(DeclarationNode(kw.node.value, id.node.value,
                         get_current_line(id.parser)), LAMBDA declaration :
    Bind(parser_log_step(id.parser, "CREATE_NODE",
                         "Created declaration: " \o kw.node.value \o " " \o id.node.value,
                         declaration, None), LAMBDA p1 :
    \* the optional initializer
    Then(IF has_token(p1) /\ current_token(p1).value = "="
         THEN Then(expect(p1, "OPERATOR", "="), LAMBDA eq :
              Then(parse_expression(eq.parser), LAMBDA expr :
              Parsed(expr.parser, add_child(declaration, expr.node))))
         ELSE Parsed(p1, declaration), LAMBDA init :
    Then(expect(init.parser, "DELIMITER", ";"), LAMBDA semi :
    Parsed(parser_log_step(semi.parser, "COMPLETE", "Declaration complete",
                           NoNode, "parse_declaration"),
           init.node))))))))

parse_assignment(p0) ==
    Bind(parser_log_step(p0, "ROUTINE", "Starting assignment", NoNode,
                         "parse_assignment"), LAMBDA p :
    Then(expect(p, "IDENTIFIER", None), LAMBDA id :
    Then(expect(id.parser, "OPERATOR", "="), LAMBDA eq :
    Then(parse_expression(eq.parser), LAMBDA expr :
    Bind(add_child(AssignmentNode(id.node.value, get_current_line(expr.parser)),
                   expr.node), LAMBDA assignment :
    Bind(parser_log_step(expr.parser, "CREATE_NODE",
                         "Created assignment: " \o id.node.value \o " =",
                         assignment, None), LAMBDA p1 :
    Then(expect(p1, "DELIMITER", ";"), LAMBDA semi :
    Parsed(parser_log_step(semi.parser, "COMPLETE", "Assignment complete",
                           NoNode, "parse_assignment"),
           assignment))))))))

parse_declaration_or_assignment(p0) ==
    Bind(parser_log_step(p0, "ROUTINE", "Starting declaration/assignment", NoNode,
                         "parse_declaration_or_assignment"), LAMBDA p :
    IF ~has_token(p)
    THEN Failed(p, SyntaxError("Unexpected end of input", get_current_line(p), None, None))
    ELSE IF current_token(p).type = "KEYWORD" /\ current_token(p).value \in type_keywords
    THEN parse_declaration(p)
    ELSE parse_assignment(p))

(* The while loop of the argument list, after its first argument *)
RECURSIVE arguments_loop(_, _)
arguments_loop(p, function_call) ==
    IF has_token(p) /\ current_token(p).value = ","
    THEN Then(expect(p, "DELIMITER", ","), LAMBDA comma :
         Then(parse_expression(comma.parser), LAMBDA arg :
         arguments_loop(arg.parser, add_argument(function_call, arg.node))))
    ELSE Parsed(p, function_call)

parse_function_call(p0, function_name) ==
    Bind(parser_log_step(p0, "ROUTINE", "Starting function call", NoNode,
                         "parse_function_call"), LAMBDA p :
    Bind(FunctionCallNode(function_name, get_current_line(p)), LAMBDA function_call :
    Bind(parser_log_step(p, "CREATE_NODE", "Created function call: " \o function_name,
                         function_call, None), LAMBDA p1 :
    Then(expect(p1, "DELIMITER", "("), LAMBDA open :
    Then(IF has_token(open.parser) /\ current_token(open.parser).value # ")"
         THEN Then(parse_expression(open.parser), LAMBDA arg :
              arguments_loop(arg.parser, add_argument(function_call, arg.node)))
         ELSE Parsed(open.parser, function_call), LAMBDA args :
    Then(expect(args.parser, "DELIMITER", ")"), LAMBDA close :
    Then(expect(close.parser, "DELIMITER", ";"), LAMBDA semi :
    Parsed(parser_log_step(semi.parser, "COMPLETE", "Function call complete",
                           NoNode, "parse_function_call"),
           args.node))))))))

(* parse_identifier_statement taking a bare identifier for a statement *)
parse_identifier_statement_bare(p0) ==
    Bind(parser_log_step(p0, "ROUTINE", "Starting identifier statement", NoNode,
                         "parse_identifier_statement"), LAMBDA p :
    Then(expect(p, "IDENTIFIER", None), LAMBDA id :
    IF has_token(id.parser) /\ current_token(id.parser).value = "("
    THEN parse_function_call(id.parser, id.node.value)
    ELSE IF has_token(id.parser) /\ current_token(id.parser).value = ";"
    THEN Then(expect(id.parser, "DELIMITER", ";"), LAMBDA semi :
         Parsed(semi.parser, IdentifierNode(id.node.value, id.node.line)))
    ELSE
    Then(expect(id.parser, "OPERATOR", "="), LAMBDA eq :
    Then(parse_expression(eq.parser), LAMBDA expr :
    Bind(add_child(AssignmentNode(id.node.value, get_current_line(expr.parser)),
                   expr.node), LAMBDA assignment :
    Bind(parser_log_step(expr.parser, "CREATE_NODE",
                         "Created assignment: " \o id.node.value \o " =",
                         assignment, None), LAMBDA p1 :
    Then(expect(p1, "DELIMITER", ";"), LAMBDA semi :
    Parsed(parser_log_step(semi.parser, "COMPLETE", "Identifier statement complete",
                           NoNode, "parse_identifier_statement"),
           assignment))))))))

parse_identifier_statement(p0) ==
    Bind(parser_log_step(p0, "ROUTINE", "Starting identifier statement", NoNode,
                         "parse_identifier_statement"), LAMBDA p :
    Then(expect(p, "IDENTIFIER", None), LAMBDA id :
    IF has_token(id.parser) /\ current_token(id.parser).value = "("
    THEN parse_function_call(id.parser, id.node.value)
    ELSE
    Then(expect(id.parser, "OPERATOR", "="), LAMBDA eq :
    Then(parse_expression(eq.parser), LAMBDA expr :
    Bind(add_child(AssignmentNode(id.node.value, get_current_line(expr.parser)),
                   expr.node), LAMBDA assignment :
    Bind(parser_log_step(expr.parser, "CREATE_NODE",
                         "Created assignment: " \o id.node.value \o " =",
                         assignment, None), LAMBDA p1 :
    Then(expect(p1, "DELIMITER", ";"), LAMBDA semi :
    Parsed(parser_log_step(semi.parser, "COMPLETE", "Identifier statement complete",
                           NoNode, "parse_identifier_statement"),
           assignment))))))))

(* One iteration of the while loop of parse: the statement parsed, or the   *)
(* exception raised                                                         *)
parse_statement(p) ==
    IF current_token(p).type = "KEYWORD" /\ current_token(p).value \in type_keywords
    THEN parse_declaration_or_assignment(
             parser_log_step(p, "CHECK", "Found type keyword", NoNode, "parse_declaration"))
    ELSE IF current_token(p).type = "IDENTIFIER"
    THEN parse_identifier_statement(
             parser_log_step(p, "CHECK", "Found identifier", NoNode,
                             "parse_identifier_statement"))
    ELSE Failed(p, SyntaxError("Unexpected token " \o current_token(p).type,
                               get_current_line(p), None, None))

---------------------------------------------------------------------------
(* The source texts checked: every text is one a request can carry.  A word *)
(* is a sequence of characters; a family of texts is what its words spell   *)
(* when put one after the other.                                            *)

RECURSIVE Concat(_)
Concat(ws) == IF ws = <<>> THEN <<>> ELSE Head(ws) \o Concat(Tail(ws))

WordSeqs(vocab, n) == UNION {[1..k -> vocab] : k \in 0..n}

Spell(vocab, n) == {Concat(ws) : ws \in WordSeqs(vocab, n)}

(* declarations and identifiers over several lines *)
DeclVocab ==
    {<<"i","n","t"," ">>, <<"f","l","o","a","t"," ">>, <<"x"," ">>, <<"y"," ">>,
     <<"\n">>, <<"5">>, <<";">>, <<"=">>}

(* numbers and strings *)
LitVocab ==
    {<<"1">>, <<"1",".">>, <<".">>, <<"\"">>, <<"a">>, <<"\n">>, <<";">>}

(* runs of operator characters and of the characters that pair with them *)
PunctChars ==
    {<<"=">>, <<"!">>, <<"<">>, <<">">>, <<"+">>, <<"-">>, <<"&">>, <<"|">>,
     <<"*">>, <<"/">>}

(* identifiers with underscores, digits and keywords in them *)
IdentVocab == {<<"_">>, <<"x">>, <<"1">>, <<"i","n","t">>, <<"i","f">>, <<" ">>}

(* delimiters of the language and the other punctuation characters *)
DelimChars ==
    {<<"(">>, <<")">>, <<"{">>, <<"}">>, <<"[">>, <<"]">>, <<";">>, <<",">>, <<".">>,
     <<":">>, <<"@">>}

(* white space *)
SpaceChars == {<<" ">>, <<"\t">>, <<"\n">>, <<"\r">>}

(* a = o1 op o2 ... ; *)
Operands == {<<"1">>, <<"\"","+","\"">>, <<"(","1","+","x",")">>}

OperatorWords == {<<"+">>, <<"-">>, <<"*">>, <<"/">>}

RECURSIVE Interleave(_, _)
Interleave(first, rest) ==
    IF rest = <<>> THEN first ELSE Interleave(first \o Head(rest), Tail(rest))

Chains ==
    {<<"a","=">> \o Interleave(o, r) \o <<";">> :
        o \in Operands,
        r \in UNION {[1..k -> {op \o od : op \in OperatorWords, od \in Operands}] :
                         k \in 0..MaxOps}}

(* f(e1, ..., en); *)
ArgumentWords == {<<"1">>, <<"x">>, <<"\"",")","\"">>, <<"1","+","x">>}

Calls ==
    {<<"f","(">> \o <<>> \o <<")",";">>}
    \cup {<<"f","(">> \o Interleave(a, r) \o <<")",";">> :
              a \in ArgumentWords,
              r \in UNION {[1..k -> {<<",", " ">> \o b : b \in ArgumentWords}] :
                               k \in 0..(MaxArgs - 1)}}

(* statements broken over several lines: a newline or nothing after each   *)
(* word                                                                     *)
BrokenStatements ==
    {<<<<"x">>, <<"=">>, <<"1">>, <<"+">>, <<"y">>, <<";">>>>,
     <<<<"i","n","t"," ">>, <<"x">>, <<"=">>, <<"1">>, <<"*">>, <<"y">>, <<";">>>>,
     <<<<"f">>, <<"(">>, <<"1">>, <<"-">>, <<"y">>, <<",">>, <<"x">>, <<")">>, <<";">>>>}

LineBreaks(ws) ==
    {Concat([i \in 1..Len(ws) |-> ws[i] \o breaks[i]]) :
        breaks \in [1..Len(ws) -> {<<>>, <<"\n">>}]}

(* programs of several statements, one a line *)
Statements ==
    {<<"i","n","t"," ","x",";","\n">>, <<"i","n","t"," ","y","=","x","*","2",";","\n">>,
     <<"x","=","y","-","1",";","\n">>, <<"f","(","x",")",";","\n">>, <<"x",";","\n">>}

Sources ==
    Spell(DeclVocab, MaxWords) \cup Spell(LitVocab, MaxWords)
        \cup Spell(PunctChars, MaxOpRun) \cup Chains \cup Calls
        \cup Spell(Statements, MaxStmts)
        \cup Spell(IdentVocab, MaxIdentWords) \cup Spell(DelimChars, MaxOpRun)
        \cup Spell(SpaceChars, MaxOpRun)
        \cup UNION {LineBreaks(ws) : ws \in BrokenStatements}

---------------------------------------------------------------------------
(* analyze: the lexing loop, then Parser(tokens).parse()                    *)

Init ==
    /\ lexer \in {Lexer(text) : text \in Sources}
    /\ tokens = <<>>
    /\ token = NoToken
    /\ parser = [tokens |-> <<>>, position |-> -1, parse_steps |-> <<>>,
                 routine_stack |-> <<>>]
    /\ program = NoNode
    /\ error = NoError
    /\ pc = "lexing"

(* the lexing loop appending the token before its test for EOF *)
GetNextToken_append_first ==
    /\ pc = "lexing"
    /\ LET r == get_next_token(lexer) IN
       /\ lexer' = r.lexer
       /\ token' = IF r.raised # NoError THEN token ELSE r.token
       /\ tokens' = IF r.raised = NoError THEN Append(tokens, r.token) ELSE tokens
       /\ error' = r.raised
       /\ pc' = IF r.raised # NoError THEN "failed"
                ELSE IF r.token.type = "EOF" THEN "lexed" ELSE "lexing"
    /\ UNCHANGED <<parser, program>>

(* One turn of the while True loop: get_next_token, then the break on EOF   *)
(* or the append; a LexicalError ends the request.                          *)
GetNextToken ==
    /\ pc = "lexing"
    /\ LET r == get_next_token(lexer) IN
       /\ lexer' = r.lexer
       /\ token' = IF r.raised # NoError THEN token ELSE r.token
       /\ tokens' = IF r.raised = NoError /\ r.token.type # "EOF"
                    THEN Append(tokens, r.token) ELSE tokens
       /\ error' = r.raised
       /\ pc' = IF r.raised # NoError THEN "failed"
                ELSE IF r.token.type = "EOF" THEN "lexed" ELSE "lexing"
    /\ UNCHANGED <<parser, program>>

(* Parser(tokens), and parse up to its while loop *)
ParseBegin ==
    /\ pc = "lexed"
    /\ parser' = parser_log_step(Parser(tokens), "START", "Beginning parsing", NoNode,
                                 "parse_program")
    /\ program' = ProgramNode
    /\ pc' = "parsing"
    /\ UNCHANGED <<lexer, tokens, token, error>>

(* the statement loop putting the cursor back where the statement began *)
ParseStatement_again ==
    /\ pc = "parsing"
    /\ has_token(parser)
    /\ LET r == parse_statement(parser) IN
       /\ parser' = [r.parser EXCEPT !.position = parser.position]
       /\ program' = IF r.raised = NoError THEN add_child(program, r.node) ELSE program
       /\ error' = r.raised
       /\ pc' = IF r.raised # NoError THEN "failed" ELSE "parsing"
    /\ UNCHANGED <<lexer, tokens, token>>

(* One iteration of the while loop of parse; a SyntaxError ends the request *)
ParseStatement ==
    /\ pc = "parsing"
    /\ has_token(parser)
    /\ LET r == parse_statement(parser) IN
       /\ parser' = r.parser
       /\ program' = IF r.raised = NoError THEN add_child(program, r.node) ELSE program
       /\ error' = r.raised
       /\ pc' = IF r.raised # NoError THEN "failed" ELSE "parsing"
    /\ UNCHANGED <<lexer, tokens, token>>

(* The end of parse: the tokens are exhausted and program is returned *)
ParseComplete ==
    /\ pc = "parsing"
    /\ ~has_token(parser)
    /\ parser' = parser_log_step(parser, "COMPLETE", "Parsing completed successfully",
                                 program, "parse_program")
    /\ pc' = "done"
    /\ UNCHANGED <<lexer, tokens, token, program, error>>

Next == GetNextToken \/ ParseBegin \/ ParseStatement \/ ParseComplete

Spec == Init /\ [][Next]_vars

---------------------------------------------------------------------------
(* parse() alone, on any token list: the words are single tokens and whole  *)
(* statements, and token i of a list stands at column i of line 1.          *)

ParseWords ==
    {<<<<"KEYWORD", "int">>>>, <<<<"IDENTIFIER", "x">>>>, <<<<"OPERATOR", "=">>>>,
     <<<<"INTEGER", "1">>>>, <<<<"DELIMITER", ";">>>>, <<<<"DELIMITER", "(">>>>,
     <<<<"DELIMITER", ")">>>>,
     <<<<"KEYWORD", "int">>, <<"IDENTIFIER", "x">>, <<"DELIMITER", ";">>>>}

ParseTokens ==
    {[i \in 1..Len(ws) |-> Token(ws[i][1], ws[i][2], 1, i)] :
        ws \in Spell(ParseWords, MaxParseWords)}

InitParse ==
    /\ lexer = Lexer(<<>>)
    /\ tokens \in ParseTokens
    /\ token = NoToken
    /\ parser = [tokens |-> <<>>, position |-> -1, parse_steps |-> <<>>,
                 routine_stack |-> <<>>]
    /\ program = NoNode
    /\ error = NoError
    /\ pc = "lexed"

NextParse == ParseBegin \/ ParseStatement \/ ParseComplete

(* parse runs on one thread from its first statement to its return or to    *)
(* the exception that ends it: a step that can be taken is taken.           *)
SpecParse == InitParse /\ [][NextParse]_vars /\ WF_vars(NextParse)

---------------------------------------------------------------------------
(* tokenize: the other mode of the Lexer, the whole token list in one call *)

InitTokenize ==
    /\ lexer \in {Lexer(source) : source \in Sources}
    /\ tokens = <<>>
    /\ token = NoToken
    /\ parser = [tokens |-> <<>>, position |-> -1, parse_steps |-> <<>>,
                 routine_stack |-> <<>>]
    /\ program = NoNode
    /\ error = NoError
    /\ pc = "tokenizing"

(* tokens = lexer.tokenize(); a LexicalError ends the request *)
Tokenize ==
    /\ pc = "tokenizing"
    /\ LET r == tokenize(lexer) IN
       /\ lexer' = r.lexer
       /\ tokens' = IF r.raised = NoError THEN r.lexer.tokens ELSE tokens
       /\ error' = r.raised
       /\ pc' = IF r.raised # NoError THEN "failed" ELSE "tokenized"
    /\ UNCHANGED <<token, parser, program>>

NextTokenize == Tokenize

SpecTokenize == InitTokenize /\ [][NextTokenize]_vars

(* The caller loop of analyze, run to its end: get_next_token until EOF,    *)
(* every other token appended to toks                                       *)
RECURSIVE analyze_loop(_, _)
analyze_loop(lx, toks) ==
    LET r == get_next_token(lx) IN
    IF r.raised # NoError THEN [lexer |-> r.lexer, tokens |-> toks, raised |-> r.raised]
    ELSE IF r.token.type = "EOF"
    THEN [lexer |-> r.lexer, tokens |-> toks, raised |-> NoError]
    ELSE analyze_loop(r.lexer, Append(toks, r.token))

---------------------------------------------------------------------------
(* expect, called on a Parser of a few tokens with every kind and lexeme    *)
(* a caller asks for                                                        *)

ExpectTokens ==
    {Token("KEYWORD", "int", 1, 4), Token("IDENTIFIER", "x", 1, 6),
     Token("OPERATOR", "=", 2, 2), Token("DELIMITER", ";", 3, 2),
     Token("STRING", ";", 3, 2)}

ExpectKinds == {"KEYWORD", "IDENTIFIER", "OPERATOR", "DELIMITER"}

ExpectValues == {None, "=", ";"}

(* The call in progress, as the position of the caller *)
Request(token_type, token_value) == "expect(" \o token_type \o ", " \o token_value \o ")"

InitExpect ==
    /\ lexer = Lexer(<<>>)
    /\ tokens \in UNION {[1..n -> ExpectTokens] : n \in 0..MaxTokens}
    /\ token = NoToken
    /\ parser = Parser(tokens)
    /\ program = NoNode
    /\ error = NoError
    /\ pc = "start"

(* consumed = parser.expect(token_type, token_value); a SyntaxError ends    *)
(* the request                                                              *)
Expect ==
    /\ error = NoError
    /\ \E token_type \in ExpectKinds, token_value \in ExpectValues :
           LET r == expect(parser, token_type, token_value) IN
           /\ parser' = r.parser
           /\ token' = IF r.raised = NoError THEN r.node ELSE token
           /\ error' = r.raised
           /\ pc' = Request(token_type, token_value)
    /\ UNCHANGED <<lexer, tokens, program>>

NextExpect == Expect

SpecExpect == InitExpect /\ [][NextExpect]_vars

---------------------------------------------------------------------------
(* A CharStream alone: any sequence of get_char and peek_char calls on the  *)
(* stream of a fresh Lexer.  token holds the character the last call        *)
(* returned, pc the name of the call.                                       *)

StreamChars == {<<"a">>, <<" ">>, <<"\n">>}

CharTexts == Spell(StreamChars, MaxChars)

InitCharStream ==
    /\ lexer \in {Lexer(text) : text \in CharTexts}
    /\ tokens = <<>>
    /\ token = None
    /\ parser = Parser(tokens)
    /\ program = NoNode
    /\ error = NoError
    /\ pc = "start"

(* char = stream.get_char() *)
GetChar ==
    /\ LET r == get_char(lexer.stream) IN
       /\ lexer' = [lexer EXCEPT !.stream = r.stream]
       /\ token' = r.char
    /\ pc' = "get_char"
    /\ UNCHANGED <<tokens, parser, program, error>>

(* char = stream.peek_char() *)
PeekChar ==
    /\ token' = peek_char(lexer.stream)
    /\ pc' = "peek_char"
    /\ UNCHANGED <<lexer, tokens, parser, program, error>>

NextCharStream == GetChar \/ PeekChar

SpecCharStream == InitCharStream /\ [][NextCharStream]_vars

---------------------------------------------------------------------------
(* What the properties below read off a state *)

text == lexer.stream.text

symbol_table == lexer.symbol_table

(* The position (line, column) of a CharStream that has consumed k          *)
(* characters of txt, by the rule of the data model: a newline starts a     *)
(* line at column 1, any other character moves one column on.               *)
RECURSIVE PositionAfter(_, _)
PositionAfter(txt, k) ==
    IF k = 0 THEN <<1, 1>>
    ELSE LET before == PositionAfter(txt, k - 1) IN
         IF txt[k] = "\n" THEN <<before[1] + 1, 1>> ELSE <<before[1], before[2] + 1>>

(* The number of characters consumed when the stream stood at (line, column) *)
OffsetOf(txt, line, column) ==
    CHOOSE k \in 0..Len(txt) : PositionAfter(txt, k) = <<line, column>>

(* The offset of the last character of token t: an identifier, number or    *)
(* string takes its position after its lexeme, an operator or delimiter     *)
(* after its first character.                                               *)
TokenEnd(t) ==
    OffsetOf(text, t.line, t.column) + (IF t.type = "OPERATOR" THEN Len(t.value) - 1 ELSE 0)

(* The character that follows token t in the text, None at the end *)
CharAfter(t) == IF TokenEnd(t) < Len(text) THEN text[TokenEnd(t) + 1] ELSE None

IsIdentifier(i) == tokens[i].type = "IDENTIFIER"

(* Token i is the first IDENTIFIER token with its lexeme *)
FirstOccurrence(i) ==
    /\ IsIdentifier(i)
    /\ \A j \in 1..(i - 1) : ~(IsIdentifier(j) /\ tokens[j].value = tokens[i].value)

(* Token i is the next token after a type keyword *)
AfterTypeKeyword(i) ==
    i > 1 /\ tokens[i - 1].type = "KEYWORD" /\ tokens[i - 1].value \in type_keywords

SizeInBytes(declared_type) ==
    CASE declared_type = "int" -> 4
      [] declared_type = "float" -> 4
      [] declared_type = "char" -> 1
      [] declared_type = "double" -> 8

---------------------------------------------------------------------------
(* C1: first-declaration-wins.  The symbol-table entry of every identifier  *)
(* lexed so far records the line of the first IDENTIFIER token with that    *)
(* lexeme: later occurrences do not overwrite it.                           *)
C1_FirstDeclarationWins ==
    \A i \in 1..Len(tokens) :
        FirstOccurrence(i) =>
            /\ tokens[i].value \in DOMAIN symbol_table
            /\ symbol_table[tokens[i].value].line = tokens[i].line

(* C2: declared type and size.  An identifier first lexed as the next       *)
(* identifier after a type keyword has an entry whose declared type is that *)
(* keyword and whose size in bytes is the one the fixed mapping gives       *)
(* (int 4, float 4, char 1, double 8).                                      *)
C2_DeclaredTypeAndSize ==
    \A i \in 1..Len(tokens) :
        (FirstOccurrence(i) /\ AfterTypeKeyword(i)) =>
            LET entry == symbol_table[tokens[i].value] IN
            /\ entry.type = tokens[i - 1].value
            /\ "size_in_bytes" \in DOMAIN entry
            /\ entry["size_in_bytes"] = SizeInBytes(tokens[i - 1].value)

(* C3: the pending declaration type is single-use.  The identifier lexed    *)
(* next after a type keyword consumes the pending type: it is recorded with *)
(* that type when it is new, and whether it is new or not the type is gone  *)
(* afterwards, so that an identifier first lexed without a type keyword     *)
(* immediately before it has an entry with no declared type.                *)
C3_PendingTypeSingleUse ==
    \A i \in 1..Len(tokens) :
        FirstOccurrence(i) =>
            IF AfterTypeKeyword(i)
            THEN symbol_table[tokens[i].value].type = tokens[i - 1].value
            ELSE symbol_table[tokens[i].value].type \notin type_keywords

(* C9: malformed number.  A second '.' inside one numeric lexeme is a       *)
(* LexicalError, and no token is emitted for that lexeme: no FLOAT token    *)
(* stands in the token list with a '.' right after it in the text.          *)
C9_NoTokenForMalformedNumber ==
    \A i \in 1..Len(tokens) :
        tokens[i].type = "FLOAT" => CharAfter(tokens[i]) # "."

(* C10: multi-character operators.  Each of == != <= >= ++ -- && || in the  *)
(* source is consumed as one OPERATOR token: no one-character OPERATOR      *)
(* token is followed in the text by the character that completes one of     *)
(* them, and the character that starts one of them is never refused as an   *)
(* unexpected character.                                                    *)
MultiCharacterOperators == {"==", "!=", "<=", ">=", "++", "--", "&&", "||"}

C10_MultiCharacterOperators ==
    /\ \A i \in 1..Len(tokens) :
           (tokens[i].type = "OPERATOR" /\ Len(tokens[i].value) = 1) =>
               (tokens[i].value \o CharAfter(tokens[i])) \notin MultiCharacterOperators
    /\ (error.class = "LexicalError" /\ lexer.stream.position < Len(text)) =>
           (text[lexer.stream.position] \o text[lexer.stream.position + 1])
               \notin MultiCharacterOperators

---------------------------------------------------------------------------
(* What an assignment statement was parsed from: the expression tokens, the *)
(* nesting depth of each, and the terms of a tree read from left to right.  *)

(* The request is one statement IDENT = expression ; and parse returned *)
ParsedAssignment ==
    /\ pc = "done"
    /\ Len(tokens) >= 4
    /\ tokens[1].type = "IDENTIFIER"
    /\ tokens[2].type = "OPERATOR" /\ tokens[2].value = "="
    /\ tokens[Len(tokens)].type = "DELIMITER" /\ tokens[Len(tokens)].value = ";"
    /\ \A i \in 1..(Len(tokens) - 1) :
           ~(tokens[i].type = "DELIMITER" /\ tokens[i].value = ";")

ExprFirst == 3

ExprLast == Len(tokens) - 1

(* The expression node of the Assignment: its second child *)
ExprRoot == program.children[1].children[2]

IsParen(i, value) == tokens[i].type = "DELIMITER" /\ tokens[i].value = value

(* The number of parentheses open before token i *)
Depth(i) ==
    Cardinality({j \in ExprFirst..(i - 1) : IsParen(j, "(")})
        - Cardinality({j \in ExprFirst..(i - 1) : IsParen(j, ")")})

RECURSIVE Ascending(_)
Ascending(S) ==
    IF S = {} THEN <<>>
    ELSE LET m == CHOOSE x \in S : \A y \in S : x <= y IN <<m>> \o Ascending(S \ {m})

(* The operator tokens of the expression outside every parenthesis *)
TopOperators ==
    Ascending({i \in ExprFirst..ExprLast : tokens[i].type = "OPERATOR" /\ Depth(i) = 0})

(* A token as a term: what kind of node or operator it is, and its lexeme *)
TermOf(t) ==
    <<CASE t.type \in {"NUMBER", "INTEGER", "FLOAT"} -> "Number"
        [] t.type = "STRING" -> "String"
        [] t.type = "IDENTIFIER" -> "Identifier"
        [] OTHER -> t.type,
      t.value>>

(* The terms of tokens first..last, parentheses left out *)
RECURSIVE Terms(_, _)
Terms(first, last) ==
    IF first > last THEN <<>>
    ELSE (IF tokens[first].type = "DELIMITER" THEN <<>> ELSE <<TermOf(tokens[first])>>)
             \o Terms(first + 1, last)

IsLeaf(node) == node.type \in {"Number", "String", "Identifier"}

IsBinaryOp(node, ops) == node.type = "BinaryOp" /\ node.operator \in ops

(* The terms of a tree, left operand, operator, right operand *)
RECURSIVE InOrder(_)
InOrder(node) ==
    IF node.type = "BinaryOp"
    THEN InOrder(node.children[1]) \o <<<<"OPERATOR", node.operator>>>>
             \o InOrder(node.children[2])
    ELSE <<<<node.type, IF node.type = "Identifier" THEN node.name ELSE node.value>>>>

(* The node k left children below node, NoNode where there is none *)
RECURSIVE LeftDescend(_, _)
LeftDescend(node, k) ==
    IF k = 0 THEN node
    ELSE IF node.type = "BinaryOp" THEN LeftDescend(node.children[1], k - 1)
    ELSE NoNode

(* The k-th operand of the chain: the tokens between two top operators *)
OperandFirst(k) == IF k = 1 THEN ExprFirst ELSE TopOperators[k - 1] + 1

OperandLast(k) == IF k = Len(TopOperators) + 1 THEN ExprLast ELSE TopOperators[k] - 1

(* The expression is a chain: operands joined by operators of one level *)
OneLevelChain ==
    /\ Len(TopOperators) >= 1
    /\ \/ \A k \in 1..Len(TopOperators) : tokens[TopOperators[k]].value \in {"+", "-"}
       \/ \A k \in 1..Len(TopOperators) : tokens[TopOperators[k]].value \in {"*", "/"}

(* C4: left-associativity.  A chain of operands joined by operators of one  *)
(* precedence level is folded left to right: the last operator is at the    *)
(* root, the j-th operator is the node (n - j) left children below it with  *)
(* operand j + 1 as its right child, and the first operand is at the bottom *)
(* of the left spine.                                                       *)
C4_LeftAssociative ==
    (ParsedAssignment /\ OneLevelChain) =>
        /\ \A j \in 1..Len(TopOperators) :
               LET node == LeftDescend(ExprRoot, Len(TopOperators) - j) IN
               /\ node.type = "BinaryOp"
               /\ node.operator = tokens[TopOperators[j]].value
               /\ InOrder(node.children[2]) = Terms(OperandFirst(j + 1), OperandLast(j + 1))
        /\ InOrder(LeftDescend(ExprRoot, Len(TopOperators)))
               = Terms(OperandFirst(1), OperandLast(1))

(* a = o1 - o2 - o3 ; has been parsed *)
C4_Witness ==
    /\ ParsedAssignment
    /\ OneLevelChain
    /\ Len(TopOperators) = 2
    /\ tokens[TopOperators[1]].value = "-"
    /\ tokens[TopOperators[2]].value = "-"
    /\ ExprRoot.children[1].type = "BinaryOp"

---------------------------------------------------------------------------
(* The subtrees of a tree, each with the terms it spans *)

Size(node) == Len(InOrder(node))

(* node and every node below it, with the places of its first and last term *)
(* when node begins at term first                                           *)
RECURSIVE Subtrees(_, _)
Subtrees(node, first) ==
    {[node |-> node, first |-> first, last |-> first + Size(node) - 1]}
        \cup (IF node.type = "BinaryOp"
              THEN Subtrees(node.children[1], first)
                       \cup Subtrees(node.children[2], first + Size(node.children[1]) + 1)
              ELSE {})

(* The number of terms among the expression tokens up to token i *)
TermIndex(i) == Cardinality({m \in ExprFirst..i : tokens[m].type # "DELIMITER"})

(* The parenthesis that closes the one at token i *)
Closing(i) ==
    CHOOSE j \in (i + 1)..ExprLast :
        /\ IsParen(j, ")") /\ Depth(j) = Depth(i) + 1
        /\ \A m \in (i + 1)..(j - 1) : ~(IsParen(m, ")") /\ Depth(m) = Depth(i) + 1)

(* The parenthesized sub-expressions, each as the terms between its parentheses *)
Groups ==
    {[first |-> TermIndex(i) + 1, last |-> TermIndex(Closing(i))] :
        i \in {m \in ExprFirst..ExprLast : IsParen(m, "(")}}

(* The operand of the BinaryOp s that begins at term first: one of its children *)
Operand(s, k) ==
    IF k = 1
    THEN [node |-> s.node.children[1], first |-> s.first,
          last |-> s.first + Size(s.node.children[1]) - 1]
    ELSE [node |-> s.node.children[2], first |-> s.first + Size(s.node.children[1]) + 1,
          last |-> s.last]

IsGroup(s) == [first |-> s.first, last |-> s.last] \in Groups

(* C5: precedence.  A parsed expression keeps its terms in input order;     *)
(* every * or / BinaryOp has a primary as its right operand (a number, a    *)
(* string, an identifier or a parenthesized sub-expression) and a primary   *)
(* or another * or / BinaryOp as its left operand, never a + or - BinaryOp  *)
(* that is not in parentheses; and every parenthesized sub-expression is    *)
(* one subtree, the operand of what surrounds it.                           *)
C5_Precedence ==
    ParsedAssignment =>
        /\ InOrder(ExprRoot) = Terms(ExprFirst, ExprLast)
        /\ \A g \in Groups :
               \E s \in Subtrees(ExprRoot, 1) : s.first = g.first /\ s.last = g.last
        /\ \A s \in Subtrees(ExprRoot, 1) :
               IsBinaryOp(s.node, {"*", "/"}) =>
                   /\ IsLeaf(s.node.children[2]) \/ IsGroup(Operand(s, 2))
                   /\ \/ IsLeaf(s.node.children[1])
                      \/ IsBinaryOp(s.node.children[1], {"*", "/"})
                      \/ IsGroup(Operand(s, 1))

(* a = o1 + o2 * (o3 + o4) ; has been parsed *)
C5_Witness ==
    /\ ParsedAssignment
    /\ Len(TopOperators) = 2
    /\ tokens[TopOperators[1]].value = "+"
    /\ tokens[TopOperators[2]].value = "*"
    /\ IsParen(TopOperators[2] + 1, "(")
    /\ IsBinaryOp(ExprRoot, {"+"})
    /\ IsBinaryOp(ExprRoot.children[2], {"*"})
    /\ IsBinaryOp(ExprRoot.children[2].children[2], {"+"})

---------------------------------------------------------------------------
(* Token i is an INTEGER token with a letter right after its digits *)
DigitsThenLetter(i) == tokens[i].type = "INTEGER" /\ isalpha(CharAfter(tokens[i]))

(* Token i + 1 is the word that begins right after token i, on its line *)
WordFollows(i) ==
    /\ tokens[i + 1].type = (IF tokens[i + 1].value \in keywords THEN "KEYWORD"
                             ELSE "IDENTIFIER")
    /\ tokens[i + 1].line = tokens[i].line
    /\ TokenEnd(tokens[i + 1]) - Len(tokens[i + 1].value) = TokenEnd(tokens[i])

(* C6: error locality.  A digit run immediately followed by letters is not  *)
(* a lexical error: the digits are an INTEGER token and the letters the     *)
(* next token, an IDENTIFIER (a KEYWORD when they spell one).  After a type *)
(* keyword the parser stops at that INTEGER token with a SyntaxError whose  *)
(* expected is IDENTIFIER, whose found is INTEGER and whose line is the     *)
(* line of the INTEGER token; the parse never succeeds, and when the type   *)
(* keyword begins the source and the rest lexes the request ends there.     *)
C6_ErrorLocality ==
    /\ (error.class = "LexicalError" /\ lexer.stream.position \in 1..(Len(text) - 1)) =>
           ~(isdigit(text[lexer.stream.position])
                 /\ isalpha(text[lexer.stream.position + 1]))
    /\ \A i \in 1..Len(tokens) :
           DigitsThenLetter(i) =>
               /\ IF i = Len(tokens) THEN pc = "lexing" ELSE WordFollows(i)
               /\ (i > 1 /\ tokens[i - 1].type = "KEYWORD"
                         /\ tokens[i - 1].value \in type_keywords) =>
                      /\ parser.position <= i - 1
                      /\ pc # "done"
                      /\ (parser.position = i - 1) =>
                             /\ pc = "failed"
                             /\ error = SyntaxError("Expected IDENTIFIER, got INTEGER",
                                                    tokens[i].line, "IDENTIFIER", "INTEGER")
                      /\ (i = 2 /\ pc = "failed" /\ error.class # "LexicalError") =>
                             parser.position = 1

(* int, then 5x on the next line, has been lexed and refused by the parser *)
C6_Witness ==
    /\ pc = "failed"
    /\ error.class = "SyntaxError"
    /\ Len(tokens) >= 3
    /\ tokens[1].type = "KEYWORD" /\ tokens[1].value = "int"
    /\ DigitsThenLetter(2)
    /\ tokens[2].line = 2
    /\ tokens[3].type = "IDENTIFIER"

---------------------------------------------------------------------------
(* What the next call of get_next_token stands before *)

(* The place of the next character that is not white space, 0 at the end *)
NextStart ==
    LET rest == {k \in (lexer.stream.position + 1)..Len(text) : ~isspace(text[k])}
    IN  IF rest = {} THEN 0 ELSE CHOOSE k \in rest : \A m \in rest : k <= m

OpensString == NextStart # 0 /\ text[NextStart] = "\""

(* The place of the first quote or newline after the opening quote, 0 when  *)
(* the input ends before one                                                *)
StringStop ==
    LET stops == {k \in (NextStart + 1)..Len(text) : text[k] \in {"\"", "\n"}}
    IN  IF stops = {} THEN 0 ELSE CHOOSE k \in stops : \A m \in stops : k <= m

RECURSIVE Join(_)
Join(chars) == IF chars = <<>> THEN "" ELSE Head(chars) \o Join(Tail(chars))

(* C8: unterminated string.  When the next lexeme opens with a quote and a  *)
(* newline or the end of input comes before a closing quote, the step       *)
(* raises a LexicalError with the message "Unterminated string" and adds no *)
(* token; when the closing quote comes first, the step adds one STRING      *)
(* token whose lexeme is the characters between the two quotes.             *)
C8_UnterminatedString ==
    [][(pc = "lexing" /\ OpensString) =>
           IF StringStop # 0 /\ text[StringStop] = "\""
           THEN /\ error' = NoError
                /\ Len(tokens') = Len(tokens) + 1
                /\ SubSeq(tokens', 1, Len(tokens)) = tokens
                /\ tokens'[Len(tokens')].type = "STRING"
                /\ tokens'[Len(tokens')].value
                       = Join(SubSeq(text, NextStart + 1, StringStop - 1))
                /\ lexer'.stream.position = StringStop
           ELSE /\ error'.class = "LexicalError"
                /\ error'.message = "Unterminated string"
                /\ tokens' = tokens
                /\ pc' = "failed"]_vars

(* "a" has been lexed as a STRING token, and the quote after it opened a    *)
(* string that the end of input left unterminated                           *)
C8_Witness ==
    /\ pc = "failed"
    /\ error.class = "LexicalError"
    /\ error.message = "Unterminated string"
    /\ Len(tokens) = 1
    /\ tokens[1].type = "STRING"
    /\ tokens[1].value = "a"
    /\ lexer.stream.position = Len(text)

---------------------------------------------------------------------------
(* A function-call statement, read from the tokens *)

IsTerm(i) == tokens[i].type \in {"NUMBER", "INTEGER", "FLOAT", "STRING", "IDENTIFIER"}

IsBinaryOperator(i) == tokens[i].type = "OPERATOR" /\ tokens[i].value \in {"+", "-", "*", "/"}

(* Tokens first..last are an expression without parentheses: terms joined   *)
(* by operators                                                             *)
SimpleExpression(first, last) ==
    /\ first <= last
    /\ (last - first) % 2 = 0
    /\ \A i \in first..last :
           IF (i - first) % 2 = 0 THEN IsTerm(i) ELSE IsBinaryOperator(i)

(* The commas between the parentheses of the call *)
Commas ==
    Ascending({i \in 3..(Len(tokens) - 2) : tokens[i].type = "DELIMITER"})

ArgumentCount == IF Len(tokens) = 4 THEN 0 ELSE Len(Commas) + 1

ArgumentFirst(k) == IF k = 1 THEN 3 ELSE Commas[k - 1] + 1

ArgumentLast(k) == IF k = ArgumentCount THEN Len(tokens) - 2 ELSE Commas[k] - 1

(* The tokens are IDENT ( e1 , ... , en ) ; with n >= 0 *)
CallStatement ==
    /\ Len(tokens) >= 4
    /\ tokens[1].type = "IDENTIFIER"
    /\ IsParen(2, "(")
    /\ IsParen(Len(tokens) - 1, ")")
    /\ IsParen(Len(tokens), ";")
    /\ \A i \in 3..(Len(tokens) - 2) : tokens[i].type = "DELIMITER" => tokens[i].value = ","
    /\ \A k \in 1..ArgumentCount : SimpleExpression(ArgumentFirst(k), ArgumentLast(k))

(* C7: function-call arguments.  Once the parser has finished with a        *)
(* function-call statement IDENT ( e1 , ... , en ) ; the parse has          *)
(* succeeded with one FunctionCall node whose function name is IDENT and    *)
(* whose argument list holds n nodes, the k-th parsed from ek.              *)
C7_FunctionCallArguments ==
    (CallStatement /\ pc \in {"failed", "done"} /\ error.class # "LexicalError") =>
        /\ pc = "done"
        /\ Len(program.children) = 1
        /\ LET call == program.children[1] IN
           /\ call.type = "FunctionCall"
           /\ call.function_name = tokens[1].value
           /\ Len(call.arguments) = ArgumentCount
           /\ \A k \in 1..ArgumentCount :
                  InOrder(call.arguments[k]) = Terms(ArgumentFirst(k), ArgumentLast(k))

---------------------------------------------------------------------------
(* An identifier character: alphanumeric or the underscore *)
IsIdentifierChar(c) == isalnum(c) \/ c = "_"

(* The place of the last character of the run of identifier characters      *)
(* that begins at place k                                                   *)
RECURSIVE RunEnd(_)
RunEnd(k) == IF k < Len(text) /\ IsIdentifierChar(text[k + 1]) THEN RunEnd(k + 1) ELSE k

(* C11: identifier lexing.  When the next lexeme begins with a letter or an *)
(* underscore, the step adds one token whose lexeme is the maximal run of   *)
(* alphanumeric and underscore characters from there, a KEYWORD exactly     *)
(* when the lexeme is in the keyword set and an IDENTIFIER otherwise.       *)
C11_IdentifierLexing ==
    [][(pc = "lexing" /\ NextStart # 0
            /\ (isalpha(text[NextStart]) \/ text[NextStart] = "_")) =>
           /\ error' = NoError
           /\ tokens' = Append(tokens, token')
           /\ token'.value = Join(SubSeq(text, NextStart, RunEnd(NextStart)))
           /\ token'.type = (IF token'.value \in keywords THEN "KEYWORD" ELSE "IDENTIFIER")
           /\ lexer'.stream.position = RunEnd(NextStart)]_vars

---------------------------------------------------------------------------
(* The ten delimiter characters, and the characters that start an operator *)
DelimiterCharacters == {"(", ")", "{", "}", "[", "]", ";", ",", ".", ":"}

OperatorStarters == {"=", "!", "<", ">", "+", "-", "*", "/", "&", "|"}

(* C12: delimiters.  When the next lexeme begins with one of the ten        *)
(* delimiter characters, the step adds one DELIMITER token whose lexeme is  *)
(* that character alone; and the step refuses the character as unexpected   *)
(* only when it is neither a letter, an underscore, a digit, a quote, an    *)
(* operator starter nor a delimiter.                                        *)
C12_Delimiters ==
    [][(pc = "lexing" /\ NextStart # 0) =>
           /\ text[NextStart] \in DelimiterCharacters =>
                  /\ error' = NoError
                  /\ tokens' = Append(tokens, token')
                  /\ token'.type = "DELIMITER"
                  /\ token'.value = text[NextStart]
                  /\ lexer'.stream.position = NextStart
           /\ (error'.class = "LexicalError"
                   /\ error'.message = "Unexpected character: '" \o text[NextStart] \o "'") =>
                  /\ ~isalnum(text[NextStart])
                  /\ text[NextStart] \notin {"_", "\""}
                  /\ text[NextStart] \notin OperatorStarters
                  /\ text[NextStart] \notin DelimiterCharacters]_vars

---------------------------------------------------------------------------
WhitespaceCharacters == {" ", "\t", "\n", "\r"}

(* The source text is white space alone, the empty text included *)
WhitespaceOnly == \A k \in 1..Len(text) : text[k] \in WhitespaceCharacters

(* C13: whitespace-only input.  For a source text of white space alone no   *)
(* error is raised, no token is produced but EOF, the symbol table stays    *)
(* empty, and the program the parser builds and returns has no statements.  *)
C13_WhitespaceOnly ==
    WhitespaceOnly =>
        /\ error = NoError
        /\ pc # "failed"
        /\ tokens = <<>>
        /\ token.type \in {"None", "EOF"}
        /\ DOMAIN symbol_table = {}
        /\ pc \in {"lexed", "parsing", "done"} => token.type = "EOF"
        /\ pc \in {"parsing", "done"} => program = ProgramNode
        /\ pc = "parsing" => ~has_token(parser)

(* a tab and a newline have been analyzed to the end *)
C13_Witness ==
    /\ WhitespaceOnly
    /\ Len(text) = 2
    /\ text[1] = "\t"
    /\ text[2] = "\n"
    /\ pc = "done"
    /\ program.type = "Program"
    /\ program.children = <<>>

---------------------------------------------------------------------------
(* The lexing pass has returned its last token without an error *)
LexingComplete == pc \in {"lexed", "parsing", "done"} \/ error.class = "SyntaxError"

(* C14: EOF sentinel.  The EOF token has the empty lexeme and is returned   *)
(* only when the whole text is consumed; it ends the pass, so that it is    *)
(* returned once and no token is returned after it; every pass that ends    *)
(* without an error has returned it; and it is stored neither in the token  *)
(* list nor in the symbol table.                                            *)
C14_EOFSentinel ==
    /\ [](/\ token.type = "EOF" =>
                 /\ token.value = ""
                 /\ pc # "lexing"
                 /\ lexer.stream.position = Len(text)
          /\ LexingComplete => token.type = "EOF"
          /\ \A i \in 1..Len(tokens) : tokens[i].type # "EOF"
          /\ "" \notin DOMAIN symbol_table)
    /\ [][/\ token.type = "EOF" => token' = token /\ tokens' = tokens
          /\ (token.type # "EOF" /\ token'.type = "EOF") => tokens' = tokens]_vars

(* x = 1 ; or more has been lexed, and EOF returned after its last token *)
C14_Witness ==
    /\ pc = "lexed"
    /\ token.type = "EOF"
    /\ Len(tokens) >= 4
    /\ TokenEnd(tokens[Len(tokens)]) = Len(text)

---------------------------------------------------------------------------
(* The kind, lexeme and line of each token *)
TokenTriples(toks) == [i \in 1..Len(toks) |-> <<toks[i].type, toks[i].value, toks[i].line>>]

(* C15: mode equivalence.  tokenize on a fresh Lexer and the caller loop of *)
(* get_next_token on another fresh Lexer of the same text raise the same    *)
(* LexicalError or none, and produce the same tokens (kind, lexeme, line)   *)
(* and the same symbol table.                                               *)
C15_ModeEquivalence ==
    pc # "tokenizing" =>
        LET loop == analyze_loop(Lexer(text), <<>>) IN
        /\ error = loop.raised
        /\ error = NoError => TokenTriples(tokens) = TokenTriples(loop.tokens)
        /\ TokenTriples(lexer.tokens) = TokenTriples(loop.tokens)
        /\ symbol_table = loop.lexer.symbol_table

(* tokenize has returned the tokens of two statements with identifiers *)
C15_Witness ==
    /\ pc = "tokenized"
    /\ Len(tokens) >= 6
    /\ Cardinality(DOMAIN symbol_table) >= 2
    /\ tokens[Len(tokens)].line >= 2

---------------------------------------------------------------------------
(* The characters of the lexeme of token t, read from the text: a STRING    *)
(* token ends at its closing quote, which its lexeme leaves out             *)
LexemeChars(t) ==
    IF t.type = "STRING"
    THEN SubSeq(text, TokenEnd(t) - Len(t.value), TokenEnd(t) - 1)
    ELSE SubSeq(text, TokenEnd(t) - Len(t.value) + 1, TokenEnd(t))

(* The lexemes of toks joined with single spaces *)
RECURSIVE JoinLexemes(_)
JoinLexemes(toks) ==
    IF toks = <<>> THEN <<>>
    ELSE IF Len(toks) = 1 THEN LexemeChars(toks[1])
    ELSE LexemeChars(toks[1]) \o <<" ">> \o JoinLexemes(Tail(toks))

TokenKinds(toks) == [i \in 1..Len(toks) |-> toks[i].type]

(* C16: token round-trip.  For a program that lexes and parses, lexing the  *)
(* lexemes of its tokens joined with single spaces raises no error and      *)
(* gives tokens of the same kinds in the same order.                        *)
C16_TokenRoundTrip ==
    pc = "done" =>
        /\ \A i \in 1..Len(tokens) : Join(LexemeChars(tokens[i])) = tokens[i].value
        /\ LET again == analyze_loop(Lexer(JoinLexemes(tokens)), <<>>) IN
           /\ again.raised = NoError
           /\ TokenKinds(again.tokens) = TokenKinds(tokens)

(* The characters token t was lexed from: its lexeme, and for a STRING      *)
(* token the two quotes around it                                           *)
SourceChars(t) ==
    IF t.type = "STRING"
    THEN SubSeq(text, TokenEnd(t) - Len(t.value) - 1, TokenEnd(t))
    ELSE LexemeChars(t)

RECURSIVE JoinSources(_)
JoinSources(toks) ==
    IF toks = <<>> THEN <<>>
    ELSE IF Len(toks) = 1 THEN SourceChars(toks[1])
    ELSE SourceChars(toks[1]) \o <<" ">> \o JoinSources(Tail(toks))

(* C16, amended: for a program that lexes and parses, lexing the lexemes of *)
(* its tokens joined with single spaces, each STRING lexeme put back        *)
(* between its quotes, raises no error and gives tokens of the same kinds   *)
(* and lexemes in the same order; without the quotes this holds of the      *)
(* programs that have no STRING token.                                      *)
C16_TokenRoundTripQuoted ==
    pc = "done" =>
        /\ LET again == analyze_loop(Lexer(JoinSources(tokens)), <<>>) IN
           /\ again.raised = NoError
           /\ TokenKinds(again.tokens) = TokenKinds(tokens)
           /\ \A i \in 1..Len(tokens) : again.tokens[i].value = tokens[i].value
        /\ (\A i \in 1..Len(tokens) : tokens[i].type # "STRING") =>
               LET again == analyze_loop(Lexer(JoinLexemes(tokens)), <<>>) IN
               /\ again.raised = NoError
               /\ TokenKinds(again.tokens) = TokenKinds(tokens)

(* a = "+" + 1 ; or the like has been parsed: a STRING token whose lexeme   *)
(* spells an operator                                                       *)
C16_Witness ==
    /\ pc = "done"
    /\ Len(tokens) >= 6
    /\ tokens[3].type = "STRING"
    /\ tokens[3].value \in operators
    /\ tokens[4].type = "OPERATOR"

---------------------------------------------------------------------------
(* C17: expect.  When the current token has the requested kind, and the     *)
(* requested lexeme when one is given, the cursor advances by one token and *)
(* that token is returned; on a mismatch of kind or lexeme a SyntaxError is *)
(* raised with a message, the line of the current token, what was expected  *)
(* and what was found, and the cursor stays; when the tokens are exhausted  *)
(* a SyntaxError for the unexpected end of input is raised.                 *)
C17_Expect ==
    [][\A token_type \in ExpectKinds, token_value \in ExpectValues :
           pc' = Request(token_type, token_value) =>
               LET cur == current_token(parser) IN
               IF ~has_token(parser)
               THEN /\ error'.class = "SyntaxError"
                    /\ error'.message = "Unexpected end of input"
                    /\ parser'.position = parser.position
               ELSE IF cur.type = token_type /\ (token_value = None \/ cur.value = token_value)
               THEN /\ error' = NoError
                    /\ parser'.position = parser.position + 1
                    /\ token' = cur
               ELSE /\ error'.class = "SyntaxError"
                    /\ error'.message # None
                    /\ error'.line = cur.line
                    /\ error'.expected = (IF cur.type # token_type THEN token_type
                                          ELSE token_value)
                    /\ error'.found = (IF cur.type # token_type THEN cur.type ELSE cur.value)
                    /\ parser'.position = parser.position]_vars

(* one token has been consumed, and the next refused for its lexeme *)
C17_Witness ==
    /\ pc = Request("OPERATOR", ";")
    /\ parser.position = 1
    /\ token.type = "IDENTIFIER"
    /\ error.class = "SyntaxError"
    /\ error.expected = ";"
    /\ error.found = "="
    /\ error.line = 2

---------------------------------------------------------------------------
(* The token after the current token of the parser, NoToken past the end *)
NextToken == IF parser.position + 1 < Len(tokens) THEN tokens[parser.position + 2] ELSE NoToken

(* C18: statement dispatch.  At statement position a type keyword is parsed *)
(* as a Declaration; an IDENTIFIER is parsed as a function call when ( is   *)
(* the next token, as an assignment when = is, and raises a SyntaxError     *)
(* otherwise, a bare identifier statement x ; included; every other leading *)
(* token raises a SyntaxError.                                              *)
C18_StatementDispatch ==
    [][(pc = "parsing" /\ has_token(parser)) =>
           LET cur == current_token(parser)
               routines == {parser'.parse_steps[k].routine :
                                k \in (Len(parser.parse_steps) + 1)..Len(parser'.parse_steps)}
               stmt == program'.children[Len(program'.children)]
           IN  /\ error' = NoError => program'.children = Append(program.children, stmt)
               /\ error' # NoError =>
                      /\ error'.class = "SyntaxError"
                      /\ program' = program
                      /\ pc' = "failed"
               /\ IF cur.type = "KEYWORD" /\ cur.value \in type_keywords
                  THEN /\ "parse_declaration" \in routines
                       /\ "parse_identifier_statement" \notin routines
                       /\ error' = NoError => stmt.type = "Declaration"
                  ELSE IF cur.type = "IDENTIFIER"
                  THEN /\ "parse_declaration" \notin routines
                       /\ IF NextToken.type = "DELIMITER" /\ NextToken.value = "("
                          THEN /\ "parse_function_call" \in routines
                               /\ error' = NoError => stmt.type = "FunctionCall"
                          ELSE IF NextToken.type = "OPERATOR" /\ NextToken.value = "="
                          THEN /\ "parse_function_call" \notin routines
                               /\ error' = NoError => stmt.type = "Assignment"
                          ELSE error'.class = "SyntaxError"
                  ELSE /\ error'.class = "SyntaxError"
                       /\ routines = {}]_vars

(* int x ; has been parsed, and the bare identifier statement after it      *)
(* refused                                                                  *)
C18_Witness ==
    /\ pc = "failed"
    /\ error.class = "SyntaxError"
    /\ Len(tokens) = 5
    /\ Len(program.children) = 1
    /\ program.children[1].type = "Declaration"
    /\ parser.position = 4
    /\ tokens[4].type = "IDENTIFIER"
    /\ tokens[5].type = "DELIMITER" /\ tokens[5].value = ";"

---------------------------------------------------------------------------
(* C19: routine-stack discipline.  The routine stack holds the grammar      *)
(* routines that are active: between two statements no routine of a         *)
(* statement is left on it, whatever the number of statements parsed, at no *)
(* trace event does a routine stand on it twice in a text without           *)
(* parentheses, and it is empty when parse has returned.                    *)
C19_RoutineStack ==
    /\ pc = "parsing" => parser.routine_stack \in {<<>>, <<"parse_program">>}
    /\ pc = "done" => parser.routine_stack = <<>>
    /\ (pc \in {"parsing", "done", "failed"} /\ \A k \in 1..Len(text) : text[k] # "(") =>
           \A k \in 1..Len(parser.parse_steps) :
               LET stack == parser.parse_steps[k].stack IN
               \A i, j \in 1..Len(stack) : stack[i] = stack[j] => i = j

---------------------------------------------------------------------------
(* The token lists the grammar derives.  The punctuation terminals are      *)
(* DELIMITER and OPERATOR tokens; a STRING token is a primary expression    *)
(* whatever its lexeme.                                                     *)

IsOperator(i, value) == tokens[i].type = "OPERATOR" /\ tokens[i].value = value

IsTypeKeyword(i) == tokens[i].type = "KEYWORD" /\ tokens[i].value \in type_keywords

(* Tokens i..last continue an expression, depth parentheses being open and  *)
(* an operand or an operator being due; commas says that a comma outside    *)
(* every parenthesis begins another expression                              *)
RECURSIVE ExpressionScan(_, _, _, _, _)
ExpressionScan(i, last, depth, operand, commas) ==
    IF i > last THEN ~operand /\ depth = 0
    ELSE IF operand
    THEN \/ IsTerm(i) /\ ExpressionScan(i + 1, last, depth, FALSE, commas)
         \/ IsParen(i, "(") /\ ExpressionScan(i + 1, last, depth + 1, TRUE, commas)
    ELSE \/ IsBinaryOperator(i) /\ ExpressionScan(i + 1, last, depth, TRUE, commas)
         \/ IsParen(i, ")") /\ depth > 0
                /\ ExpressionScan(i + 1, last, depth - 1, FALSE, commas)
         \/ IsParen(i, ",") /\ depth = 0 /\ commas
                /\ ExpressionScan(i + 1, last, depth, TRUE, commas)

(* Expression *)
DerivesExpression(first, last) == ExpressionScan(first, last, 0, TRUE, FALSE)

(* Expression (',' Expression)* *)
DerivesArguments(first, last) == ExpressionScan(first, last, 0, TRUE, TRUE)

(* Declaration | IdentifierStatement, tokens first..last, the last one ';' *)
DerivesStatement(first, last) ==
    /\ last >= first + 2
    /\ \/ /\ IsTypeKeyword(first)
          /\ tokens[first + 1].type = "IDENTIFIER"
          /\ \/ last = first + 2
             \/ IsOperator(first + 2, "=") /\ DerivesExpression(first + 3, last - 1)
       \/ /\ tokens[first].type = "IDENTIFIER"
          /\ IsOperator(first + 1, "=")
          /\ DerivesExpression(first + 2, last - 1)
       \/ /\ tokens[first].type = "IDENTIFIER"
          /\ IsParen(first + 1, "(")
          /\ last >= first + 3
          /\ IsParen(last - 1, ")")
          /\ last = first + 3 \/ DerivesArguments(first + 2, last - 2)

(* Statement*: every statement runs to the next ';' *)
DerivesProgram ==
    \/ tokens = <<>>
    \/ /\ IsParen(Len(tokens), ";")
       /\ \A first \in 1..Len(tokens) :
              (first = 1 \/ IsParen(first - 1, ";")) =>
                  DerivesStatement(first,
                      CHOOSE last \in first..Len(tokens) :
                          /\ IsParen(last, ";")
                          /\ \A i \in first..(last - 1) : ~IsParen(i, ";"))

(* C20: grammar exactness.  Once the parser has finished with the tokens,   *)
(* parse has returned exactly when the grammar derives the token list, and  *)
(* has raised a SyntaxError when it does not.                               *)
C20_GrammarExactness ==
    (pc \in {"done", "failed"} /\ error.class # "LexicalError") =>
        /\ pc = "done" <=> DerivesProgram
        /\ pc = "failed" => error.class = "SyntaxError"

---------------------------------------------------------------------------
(* The statements of the token list: each runs to the next ; *)
StatementFirsts == {i \in 1..Len(tokens) : i = 1 \/ IsParen(i - 1, ";")}

StatementLast(first) ==
    CHOOSE last \in first..Len(tokens) :
        IsParen(last, ";") /\ \A i \in first..(last - 1) : ~IsParen(i, ";")

(* The k-th statement begins at the k-th of StatementFirsts *)
StatementFirst(k) == Ascending(StatementFirsts)[k]

(* line is one of the lines of tokens first..last *)
WithinLines(line, first, last) == tokens[first].line <= line /\ line <= tokens[last].line

(* C21: originating line.  After a successful parse every statement node    *)
(* carries a line of its own statement, the implicit Identifier child of an *)
(* Assignment the line of the identifier assigned to, and in an assignment  *)
(* without parentheses every node of the expression a line between its      *)
(* first and its last token: never the line of a token that follows.        *)
C21_OriginatingLine ==
    pc = "done" =>
        /\ \A k \in 1..Len(program.children) :
               LET node == program.children[k]
                   first == StatementFirst(k)
               IN  /\ WithinLines(node.line, first, StatementLast(first))
                   /\ node.type = "Assignment" => node.children[1].line = tokens[first].line
        /\ (ParsedAssignment /\ \A i \in 1..Len(tokens) : ~IsParen(i, "(")) =>
               \A s \in Subtrees(ExprRoot, 1) :
                   WithinLines(s.node.line, ExprFirst + s.first - 1, ExprFirst + s.last - 1)

---------------------------------------------------------------------------
steps == lexer.steps

(* C22: trace immutability.  The lexer trace only grows by appends: every   *)
(* step already in it stays as it was, snapshot of the symbol table         *)
(* included, whatever is lexed later, and every step appended shows the     *)
(* table as it was when the step was appended (the last one the table as    *)
(* the call leaves it).                                                     *)
C22_TraceImmutability ==
    [][/\ Len(steps') >= Len(steps)
       /\ SubSeq(steps', 1, Len(steps)) = steps
       /\ \A k \in (Len(steps) + 1)..Len(steps') :
              steps'[k].symbol_table_snapshot \in {symbol_table, symbol_table'}
       /\ Len(steps') > Len(steps) =>
              steps'[Len(steps')].symbol_table_snapshot = symbol_table']_vars

(* an identifier lexed again on a later line: the steps of its first        *)
(* occurrence still show the entry of line 1, the table the entry of line 2 *)
C22_Witness ==
    \E name \in DOMAIN symbol_table :
        /\ symbol_table[name].line = 2
        /\ \E k \in 1..Len(steps) :
               /\ name \in DOMAIN steps[k].symbol_table_snapshot
               /\ steps[k].symbol_table_snapshot[name].line = 1

---------------------------------------------------------------------------
IdentifierLexemes == {tokens[i].value : i \in {j \in 1..Len(tokens) : IsIdentifier(j)}}

(* the step appended an IDENTIFIER token to the token list *)
IdentifierProduced ==
    /\ Len(tokens') = Len(tokens) + 1
    /\ tokens'[Len(tokens')].type = "IDENTIFIER"

(* C23: symbol-table membership.  After any number of get_next_token calls  *)
(* the keys of the symbol table are exactly the lexemes of the IDENTIFIER   *)
(* tokens produced so far, and a call that produces a token of any other    *)
(* kind (EOF included), or raises, leaves the table as it was.              *)
C23_SymbolTableMembership ==
    /\ [](DOMAIN symbol_table = IdentifierLexemes)
    /\ [][(pc = "lexing" /\ ~IdentifierProduced) => symbol_table' = symbol_table]_vars

(* lexing is over and has produced a keyword, an identifier and a number *)
C23_Witness ==
    /\ pc = "lexed"
    /\ \E i, j, k \in 1..Len(tokens) :
           /\ tokens[i].type = "KEYWORD"
           /\ tokens[j].type = "IDENTIFIER"
           /\ tokens[k].type = "INTEGER"
    /\ DOMAIN symbol_table # {}

---------------------------------------------------------------------------
stream == lexer.stream

(* the newlines among the first k characters of txt *)
NewlinesIn(txt, k) == {i \in 1..k : txt[i] = "\n"}

(* the place of the last newline among the first k characters, 0 if none *)
LastNewline(txt, k) ==
    IF NewlinesIn(txt, k) = {} THEN 0
    ELSE CHOOSE i \in NewlinesIn(txt, k) : \A j \in NewlinesIn(txt, k) : j <= i

(* C24: character-stream position.  After any sequence of get_char and      *)
(* peek_char calls line >= 1 and column >= 1, line is 1 plus the number of  *)
(* newlines consumed, column is 1 plus the number of characters consumed    *)
(* since the last consumed newline (or since the start), and the offset     *)
(* never exceeds the length of the text; peek_char changes nothing of the   *)
(* stream and returns the character at the offset, and get_char at the end  *)
(* of the input returns None and leaves offset, line and column alone.      *)
C24_StreamPosition ==
    /\ [](/\ stream.line >= 1
          /\ stream.column >= 1
          /\ stream.position >= 0
          /\ stream.position <= Len(stream.text)
          /\ stream.line = 1 + Cardinality(NewlinesIn(stream.text, stream.position))
          /\ stream.column = 1 + stream.position
                               - LastNewline(stream.text, stream.position))
    /\ [][/\ stream'.text = stream.text
          /\ pc' = "peek_char" =>
                 /\ stream' = stream
                 /\ token' = IF stream.position = Len(stream.text) THEN None
                             ELSE stream.text[stream.position + 1]
          /\ (pc' = "get_char" /\ stream.position = Len(stream.text)) =>
                 /\ stream' = stream
                 /\ token' = None
          /\ (pc' = "get_char" /\ stream.position < Len(stream.text)) =>
                 /\ stream'.position = stream.position + 1
                 /\ token' = stream.text[stream.position + 1]]_vars

(* get_char has just returned None at the end of a text whose last newline  *)
(* is followed by a character                                               *)
C24_Witness ==
    /\ pc = "get_char"
    /\ token = None
    /\ stream.position = Len(stream.text)
    /\ stream.line >= 2
    /\ stream.column >= 2

---------------------------------------------------------------------------
position == parser.position

(* C25: parser progress and termination.  parse(), once called on the       *)
(* token list, ends by returning its Program node or by raising             *)
(* SyntaxError; the cursor never moves back, every iteration of the         *)
(* statement loop that does not raise consumes at least one token, and      *)
(* parse returns only with the cursor at the end of the token list.         *)
C25_ParserProgress ==
    /\ (pc = "lexed") ~> (pc = "done" \/ (pc = "failed" /\ error.class = "SyntaxError"))
    /\ [][/\ position' >= position
          /\ (pc = "parsing" /\ pc' = "parsing") => position' > position]_vars
    /\ [](pc = "done" =>
              /\ position = Len(tokens)
              /\ parser.tokens = tokens
              /\ program.type = "Program")

(* parse has returned after two iterations of its statement loop *)
C25_Witness ==
    /\ pc = "done"
    /\ Len(program.children) = 2
    /\ position = Len(tokens)

(* parse has raised SyntaxError after it had consumed a statement *)
C25_WitnessRaised ==
    /\ pc = "failed"
    /\ error.class = "SyntaxError"
    /\ Len(program.children) >= 1

===========================================================================
